---- MODULE Spec2Model ----
(***************************************************************************)
(* thread_local_scope: the LocalScope token, local_scope, try_access and   *)
(* access of src/src/lib.rs, run by two threads against the thread-local   *)
(* slots the crate's tests declare.                                        *)
(*                                                                         *)
(* A thread is a call stack of frames.  A frame holds the values its code  *)
(* can name: tokens (LocalScope<'a>) and references (&'a T).  The lifetime *)
(* 'a of a token is the local_scope call that made it, written             *)
(* <<thread, position of the call's frame in that thread's stack>>.        *)
(***************************************************************************)
EXTENDS Integers, Sequences, FiniteSets, TLC

\* Bounds of the model.
MaxDepth == 3       \* frames on one thread's stack, the root closure included
MaxRefs == 2        \* references one thread keeps in its frames' locals

Threads == {"main", "worker"}

\* The thread_local! slots: A and B (Cell<u8>) and MY_THING (has Drop) of
\* the tests; LocalKey<T> is generic in T and in its initializer, so also
\* OTHER_THING, a second type with Drop, and LAZY, a u8 whose initializer
\* expression may panic.
Slots == {"A", "B", "MY_THING", "OTHER_THING", "LAZY"}

InitValue(s) == IF s = "B" THEN 1 ELSE 0

\* MyThing implements Drop; Cell<u8> and u8 need no drop, so the runtime
\* registers no destructor for them.
NeedsDrop(s) == s \in {"MY_THING", "OTHER_THING"}

\* Cell<u8> is !Sync; u8 and the unit struct MyThing are Sync.
IsSync(s) == s \in {"MY_THING", "OTHER_THING", "LAZY"}

IsCell(s) == s \in {"A", "B"}

\* Outcomes of a slot's initializer expression: TRUE it yields the value,
\* FALSE it panics.  Cell::new, MyThing and const { 0 } cannot panic.
InitOutcomes(s) == IF s = "LAZY" THEN {TRUE, FALSE} ELSE {TRUE}

VARIABLES
    handles,    \* the thread_local! handles the program's code names
    thr,        \* thr[t]: "unstarted", "running", "exiting" (TLS destructors), "done", "aborted"
    panicking,  \* panicking[t]: a panic is unwinding t's stack
    stack,      \* stack[t]: the frames of t, the root closure first
    slot,       \* slot[t][s]: "uninit", "alive", "running_dtor", "destroyed"
    val,        \* val[t][s]: the value stored in t's instance of s
    obs,        \* the step just taken: which thread took it, which operation, what it got
    dtorRuns,   \* dtorRuns[t]: DID_RUN_DESTRUCTOR, counted per thread
    swapped     \* swapped[t]: an odd number of swaps of A and B ran on t

vars == <<handles, thr, panicking, stack, slot, val, obs, dtorRuns, swapped>>

\* ---------------------------------------------------------------- values

\* LocalScope<'a>(PhantomData<*const &'a ()>): a token has no runtime data,
\* only its lifetime: the local_scope call (thread, frame position) it was
\* made for.
UnguardedNew(t, k) == [thread |-> t, pos |-> k]

Tokens == [thread : Threads, pos : 1..(MaxDepth + 1)]

\* The scope of lifetime k is live: its local_scope call has not returned.
Live(k) ==
    /\ k.pos \in DOMAIN stack[k.thread]
    /\ stack[k.thread][k.pos].kind = "scope"

\* LocalScope is neither Send nor Sync (a raw pointer in its PhantomData).
\* Variant: the token is Send.
TokenSend_Mut == TRUE
TokenSend == FALSE

\* &T is Send exactly when T is Sync.
RefSend(r) == IsSync(r.slot)

Frame(kind, s, refs, toks) == [kind |-> kind, slot |-> s, refs |-> refs, toks |-> toks]

Top(t) == stack[t][Len(stack[t])]

Pop(st) == SubSeq(st, 1, Len(st) - 1)

\* What the code running on t can name: tokens are Copy and closures
\* capture, so every frame's values are in reach of the innermost one.
HeldToks(t) == UNION {stack[t][i].toks : i \in DOMAIN stack[t]}

HeldRefs(t) == UNION {stack[t][i].refs : i \in DOMAIN stack[t]}

\* The process runs until main is done or something aborted it.
ProcessAlive == thr["main"] \notin {"done", "aborted"}

\* t is executing user code: a callback, the root closure, or Drop::drop.
CanRun(t) ==
    /\ ProcessAlive
    /\ thr[t] \in {"running", "exiting"}
    /\ ~panicking[t]
    /\ stack[t] # <<>>

\* A closure's result or capture in the model: nothing, or one value.
AtMostOne(S) == {{}} \cup {{x} : x \in S}

NoObs == [thread |-> "none", op |-> "none", slot |-> "none", pre |-> "none",
          init |-> FALSE, res |-> "none", val |-> 0, msg |-> <<>>]

\* A local kept by the innermost frame, while the thread has room for one.
Keep(st, r) ==
    LET n == Len(st)
        all == UNION {st[i].refs : i \in DOMAIN st}
    IN  IF r \in st[n].refs \/ Cardinality(all) < MaxRefs
        THEN [st EXCEPT ![n].refs = @ \cup {r}]
        ELSE st

\* ------------------------------------------------ LocalKey::try_with

\* The instance of a slot that try_with reaches is the calling thread's.
\* Variant: one instance of a slot, shared by all threads.
CurrentThread_Shared(t) == "main"
CurrentThread(t) == t

\* LocalKey::try_with by the slot's state, as the standard library
\* documents it: a live value is lent, an uninitialized slot runs its
\* initializer (whose panic propagates), a slot whose destructor is
\* running or has run gives AccessError.
\* Variant: the destructor state is not looked at.
TryWithResult_NoGuard(st, initOk) ==
    CASE st = "uninit" -> IF initOk THEN "Ok" ELSE "init_panic"
      [] OTHER -> "Ok"
\* Variant: no lazy initialization.
TryWithResult_NoLazy(st, initOk) ==
    CASE st = "alive" -> "Ok"
      [] OTHER -> "Err"
\* Variant: a panicking initializer is reported as AccessError.
TryWithResult_InitErr(st, initOk) ==
    CASE st = "alive" -> "Ok"
      [] st = "uninit" -> IF initOk THEN "Ok" ELSE "Err"
      [] OTHER -> "Err"
TryWithResult(st, initOk) ==
    CASE st = "alive" -> "Ok"
      [] st = "uninit" -> IF initOk THEN "Ok" ELSE "init_panic"
      [] OTHER -> "Err"

\* try_with runs the initializer on the first access only.
RunsInit(st) == st = "uninit"

\* The slot's state after try_with: only a successful first access changes it.
\* Variant: a refused access resets the slot.
TryWithState_Reinit(st, initOk) ==
    IF st = "uninit" /\ initOk THEN "alive"
    ELSE IF st = "running_dtor" THEN "uninit" ELSE st
TryWithState(st, initOk) ==
    IF RunsInit(st) /\ initOk THEN "alive" ELSE st

\* The slot's value after try_with.
TryWithValue(st, v, s, initOk) ==
    IF RunsInit(st) /\ initOk THEN InitValue(s) ELSE v

\* &*(tls as *const T): the reference is to the slot's own storage, with
\* the lifetime of the token.
RefTo(c, s, tok) == [owner |-> c, slot |-> s, life |-> tok]

\* The state try_access leaves (slot', val', stack'), shared by access.
TryAccessEffect(t, tok, s, initOk) ==
    LET c == CurrentThread(t)
        st == slot[c][s]
        res == TryWithResult(st, initOk)
    IN  /\ slot' = [slot EXCEPT ![c][s] = TryWithState(st, initOk)]
        /\ val' = [val EXCEPT ![c][s] = TryWithValue(st, @, s, initOk)]
        /\ stack' = IF res = "Ok"
                    THEN [stack EXCEPT ![t] = Keep(@, RefTo(c, s, tok))]
                    ELSE stack

\* fmt::Debug of AccessError, and the panic message that embeds it.
DebugAccessError == "AccessError"

PanicMessage(err) ==
    <<"cannot access a Thread Local Storage value during or after destruction: ", err>>

InitPanicMessage == <<"initializer panicked">>

\* ---------------------------------------------------------------- state

\* A program naming one of the handle sets P starts on its main thread.
Init(P) ==
    /\ handles \in P
    /\ thr = [t \in Threads |-> IF t = "main" THEN "running" ELSE "unstarted"]
    /\ panicking = [t \in Threads |-> FALSE]
    /\ stack = [t \in Threads |->
                  IF t = "main" THEN <<Frame("root", "none", {}, {})>> ELSE <<>>]
    /\ slot = [t \in Threads |-> [s \in Slots |-> "uninit"]]
    /\ val = [t \in Threads |-> [s \in Slots |-> InitValue(s)]]
    /\ obs = NoObs
    /\ dtorRuns = [t \in Threads |-> 0]
    /\ swapped = [t \in Threads |-> FALSE]

\* ------------------------------------------------------------ local_scope

\* local_scope(f): f(unsafe { LocalScope::unguarded_new() }); the callback
\* starts with the fresh token.
LocalScopeEnter(t, d) ==
    /\ CanRun(t)
    /\ Len(stack[t]) < d
    /\ stack' = [stack EXCEPT ![t] =
                   Append(@, Frame("scope", "none", {},
                                   {UnguardedNew(t, Len(stack[t]) + 1)}))]
    /\ obs' = [NoObs EXCEPT !.thread = t]
    /\ UNCHANGED <<handles, thr, panicking, slot, val, dtorRuns, swapped>>

\* F: for<'a> FnOnce(LocalScope<'a>) -> R.  R is fixed outside the binder
\* of 'a, so the callback's result can carry no value whose type names the
\* call's own lifetime; values of an enclosing scope's lifetime it can.
\* Variant: the result type may name the call's lifetime.
Returnable_Unbound(t) == Top(t).refs
Returnable(t) ==
    {r \in Top(t).refs : r.life # UnguardedNew(t, Len(stack[t]))}

\* The callback returns: its frame and locals are gone, its result (no
\* reference, or one) is the caller's.
LocalScopeReturn(t, moved) ==
    /\ CanRun(t)
    /\ Top(t).kind = "scope"
    /\ moved \subseteq Returnable(t)
    /\ LET rest == Pop(stack[t])
           n == Len(rest)
       IN  /\ stack' = [stack EXCEPT ![t] = [rest EXCEPT ![n].refs = @ \cup moved]]
    /\ obs' = [NoObs EXCEPT !.thread = t, !.op = "scope_return",
                            !.res = IF moved = {} THEN "unit" ELSE "ref"]
    /\ UNCHANGED <<handles, thr, panicking, slot, val, dtorRuns, swapped>>

\* ------------------------------------------------- try_access and access

\* LocalScope::try_access(self, target): target.try_with(|tls| &*tls).
TryAccess(t, tok, s, initOk) ==
    /\ CanRun(t)
    /\ tok \in HeldToks(t)
    /\ initOk \in InitOutcomes(s)
    /\ TryAccessEffect(t, tok, s, initOk)
    /\ LET c == CurrentThread(t)
           res == TryWithResult(slot[c][s], initOk)
       IN  /\ obs' =
                        [thread |-> t, op |-> "try_access", slot |-> s, pre |-> slot[c][s],
                         init |-> RunsInit(slot[c][s]),
                         res |-> IF res = "init_panic" THEN "panic" ELSE res,
                         val |-> IF res = "Ok" THEN val'[c][s] ELSE 0,
                         msg |-> IF res = "init_panic" THEN InitPanicMessage ELSE <<>>]
           /\ panicking' = [panicking EXCEPT ![t] = (res = "init_panic")]
    /\ UNCHANGED <<handles, thr, dtorRuns, swapped>>

\* access: match self.try_access(target) { Ok(x) => x,
\*                                         Err(ae) => panic_access_error(ae) }
\* Variant: the error is handed back instead of raised.
AccessOutcome_Swallow(res) == IF res = "Ok" THEN "Ok" ELSE "Err"
AccessOutcome(res) == IF res = "Ok" THEN "Ok" ELSE "panic"

Access(t, tok, s, initOk) ==
    /\ CanRun(t)
    /\ tok \in HeldToks(t)
    /\ initOk \in InitOutcomes(s)
    /\ TryAccessEffect(t, tok, s, initOk)
    /\ LET c == CurrentThread(t)
           res == TryWithResult(slot[c][s], initOk)
           out == AccessOutcome(res)
       IN  /\ obs' =
                        [thread |-> t, op |-> "access", slot |-> s, pre |-> slot[c][s],
                         init |-> RunsInit(slot[c][s]),
                         res |-> out,
                         val |-> IF res = "Ok" THEN val'[c][s] ELSE 0,
                         msg |-> CASE res = "Err" -> PanicMessage(DebugAccessError)
                                   [] res = "init_panic" -> InitPanicMessage
                                   [] OTHER -> <<>>]
           /\ panicking' = [panicking EXCEPT ![t] = (out = "panic")]
    /\ UNCHANGED <<handles, thr, dtorRuns, swapped>>

\* A write through a reference lands in the storage the reference is to.
\* Variant: the reference is to a copy of the value.
WriteThrough_Copy(v, r, x) == v
WriteThrough(v, r, x) == [v EXCEPT ![r.owner][r.slot] = x]

\* s.access(a).swap(s.access(b)): Cell::swap through the two references.
Swap(t, ra, rb) ==
    /\ CanRun(t)
    /\ ra \in HeldRefs(t) /\ rb \in HeldRefs(t)
    /\ ra.slot = "A" /\ rb.slot = "B"
    /\ val' = WriteThrough(WriteThrough(val, ra, val[rb.owner][rb.slot]),
                           rb, val[ra.owner][ra.slot])
    /\ swapped' = [swapped EXCEPT ![t] = ~@]
    /\ obs' = [NoObs EXCEPT !.thread = t, !.op = "swap"]
    /\ UNCHANGED <<handles, thr, panicking, stack, slot, dtorRuns>>

\* ---------------------------------------------------------------- panics

\* One step of a panic's unwinding: the innermost frame and its locals
\* are dropped and nothing is returned.  thread::scope joins its threads
\* before the unwinding goes on; a panic leaving a TLS destructor aborts
\* the process; a panic leaving the root closure ends the thread.
UnwindStep(t) ==
    /\ ProcessAlive
    /\ panicking[t]
    /\ stack[t] # <<>>
    /\ Top(t).kind = "tscope" => stack["worker"] = <<>>
    /\ IF Top(t).kind = "dtor"
       THEN /\ thr' = [u \in Threads |-> "aborted"]
            /\ UNCHANGED <<panicking, stack>>
       ELSE /\ stack' = [stack EXCEPT ![t] = Pop(@)]
            /\ panicking' = [panicking EXCEPT ![t] = Len(stack[t]) > 1]
            /\ thr' = [thr EXCEPT ![t] = IF Len(stack[t]) > 1 THEN @ ELSE "exiting"]
    /\ obs' = [NoObs EXCEPT !.thread = t, !.op = "unwind"]
    /\ UNCHANGED <<handles, slot, val, dtorRuns, swapped>>

\* --------------------------------------------------------------- threads

\* thread::spawn(|| ...): the closure is 'static, so it captures no token
\* and no reference of a scope.
Spawn ==
    /\ CanRun("main")
    /\ thr["worker"] = "unstarted"
    /\ thr' = [thr EXCEPT !["worker"] = "running"]
    /\ stack' = [stack EXCEPT !["worker"] = <<Frame("root", "none", {}, {})>>]
    /\ obs' = [NoObs EXCEPT !.thread = "main"]
    /\ UNCHANGED <<handles, panicking, slot, val, dtorRuns, swapped>>

\* What a closure handed to another thread may capture: the Send values.
SendableToks(t) == {k \in HeldToks(t) : TokenSend}

SendableRefs(t) == {r \in HeldRefs(t) : RefSend(r)}

\* thread::scope(move |x| x.spawn(move || ...)): the spawned closure may
\* borrow from the spawning frame, but only what is Send.
ScopedSpawn(capToks, capRefs, d) ==
    /\ CanRun("main")
    /\ thr["worker"] = "unstarted"
    /\ Len(stack["main"]) < d
    /\ capToks \subseteq SendableToks("main")
    /\ capRefs \subseteq SendableRefs("main")
    /\ thr' = [thr EXCEPT !["worker"] = "running"]
    /\ stack' = [stack EXCEPT
                   !["main"] = Append(@, Frame("tscope", "none", {}, {})),
                   !["worker"] = <<Frame("root", "none", capRefs, capToks)>>]
    /\ obs' = [NoObs EXCEPT !.thread = "main"]
    /\ UNCHANGED <<handles, panicking, slot, val, dtorRuns, swapped>>

\* thread::scope returns once the threads spawned in it have finished
\* their closures.
ScopedJoin ==
    /\ CanRun("main")
    /\ Top("main").kind = "tscope"
    /\ thr["worker"] # "unstarted" /\ stack["worker"] = <<>>
    /\ stack' = [stack EXCEPT !["main"] = Pop(@)]
    /\ obs' = [NoObs EXCEPT !.thread = "main"]
    /\ UNCHANGED <<handles, thr, panicking, slot, val, dtorRuns, swapped>>

\* The thread's root closure returns; the thread goes on to run its TLS
\* destructors.
ThreadReturn(t) ==
    /\ CanRun(t)
    /\ thr[t] = "running"
    /\ Len(stack[t]) = 1
    /\ stack' = [stack EXCEPT ![t] = <<>>]
    /\ thr' = [thr EXCEPT ![t] = "exiting"]
    /\ obs' = [NoObs EXCEPT !.thread = t]
    /\ UNCHANGED <<handles, panicking, slot, val, dtorRuns, swapped>>

\* TLS destructors are entered only from thread exit, one after the
\* other: never while a call of the thread is still on its stack.
\* Variant: a destructor may start inside a running call.
DtorsMayRun_Anytime(t) == thr[t] = "exiting" /\ ~panicking[t]
DtorsMayRun(t) == thr[t] = "exiting" /\ stack[t] = <<>>

\* Thread exit runs the destructor of a live slot that needs one: the
\* slot is marked before Drop::drop is entered.
DtorBegin(t, s) ==
    /\ ProcessAlive
    /\ DtorsMayRun(t)
    /\ NeedsDrop(s)
    /\ slot[t][s] = "alive"
    /\ slot' = [slot EXCEPT ![t][s] = "running_dtor"]
    /\ stack' = [stack EXCEPT ![t] = Append(@, Frame("dtor", s, {}, {}))]
    /\ dtorRuns' = [dtorRuns EXCEPT ![t] = @ + 1]
    /\ obs' = [NoObs EXCEPT !.thread = t]
    /\ UNCHANGED <<handles, thr, panicking, val, swapped>>

\* Drop::drop returns.
DtorEnd(t) ==
    /\ CanRun(t)
    /\ Top(t).kind = "dtor"
    /\ slot' = [slot EXCEPT ![t][Top(t).slot] = "destroyed"]
    /\ stack' = [stack EXCEPT ![t] = Pop(@)]
    /\ obs' = [NoObs EXCEPT !.thread = t]
    /\ UNCHANGED <<handles, thr, panicking, val, dtorRuns, swapped>>

\* No destructor is left to run: the thread is gone.
ThreadDone(t) ==
    /\ ProcessAlive
    /\ thr[t] = "exiting"
    /\ stack[t] = <<>>
    /\ \A s \in Slots : ~(NeedsDrop(s) /\ slot[t][s] = "alive")
    /\ thr' = [thr EXCEPT ![t] = "done"]
    /\ obs' = [NoObs EXCEPT !.thread = t]
    /\ UNCHANGED <<handles, panicking, stack, slot, val, dtorRuns, swapped>>

\* ----------------------------------------------------------------- steps

\* The steps of thread t, its calls nested d frames deep.
ThreadStep(t, d) ==
    \/ LocalScopeEnter(t, d)
    \/ \E moved \in AtMostOne(HeldRefs(t)) : LocalScopeReturn(t, moved)
    \/ \E tok \in HeldToks(t), s \in handles, i \in BOOLEAN : TryAccess(t, tok, s, i)
    \/ \E tok \in HeldToks(t), s \in handles, i \in BOOLEAN : Access(t, tok, s, i)
    \/ UnwindStep(t)
    \/ ThreadReturn(t)
    \/ \E s \in Slots : DtorBegin(t, s)
    \/ DtorEnd(t)
    \/ ThreadDone(t)

CellStep(t) == \E ra \in HeldRefs(t), rb \in HeldRefs(t) : Swap(t, ra, rb)

SpawnStep(d) ==
    \/ Spawn
    \/ \E ct \in AtMostOne(HeldToks("main")), cr \in AtMostOne(HeldRefs("main")) :
          ScopedSpawn(ct, cr, d)
    \/ ScopedJoin

\* Two threads whose code names MY_THING, as the spawning test does.
Next == (\E t \in Threads : ThreadStep(t, MaxDepth)) \/ SpawnStep(MaxDepth)

Spec == Init({{"MY_THING"}}) /\ [][Next]_vars

\* Two threads, both naming the cells or both naming MY_THING, their calls
\* nested one frame less.
NextPar ==
    \/ \E t \in Threads : ThreadStep(t, MaxDepth - 1)
    \/ \E t \in Threads : CellStep(t)
    \/ SpawnStep(MaxDepth - 1)

SpecPar == Init({{"A", "B"}, {"MY_THING"}}) /\ [][NextPar]_vars

\* One thread whose code names the handles of the crate's tests.
NextSeq ==
    \/ ThreadStep("main", MaxDepth)
    \/ CellStep("main")

SpecSeq == Init({{"A", "B", "MY_THING"}}) /\ [][NextSeq]_vars

\* One thread whose code names the slots with a destructor and the slot
\* whose initializer may panic.
NextDrop == ThreadStep("main", MaxDepth)

SpecDrop == Init({{"MY_THING", "OTHER_THING", "LAZY"}}) /\ [][NextDrop]_vars

\* ---------------------------------------------------------------- claims

\* Every reference held by any frame of any thread.
AllRefs == UNION {HeldRefs(t) : t \in Threads}

\* C1: a try_access of a slot made while that slot's own teardown handler
\* is running returns Err(AccessError), never Ok, and no frame ever holds a
\* reference to a value that is being torn down.
C1_ReentrantTeardown ==
    /\ (obs.op = "try_access" /\ obs.pre = "running_dtor") =>
          /\ obs.res = "Err"
          /\ ~panicking[obs.thread]
    /\ \A r \in AllRefs : slot[r.owner][r.slot] # "running_dtor"

\* C1 witness: inside Drop of MY_THING, in a nested scope, try_access of
\* MY_THING has just failed.
C1_Witness ==
    /\ obs.op = "try_access" /\ obs.slot = "MY_THING" /\ obs.res = "Err"
    /\ obs.thread = "worker"
    /\ Len(stack["worker"]) = 2
    /\ stack["worker"][1].kind = "dtor" /\ stack["worker"][1].slot = "MY_THING"
    /\ stack["worker"][2].kind = "scope"

\* C2: no token and no reference outlives the local_scope call whose
\* lifetime it carries: whatever any frame of any thread holds belongs to a
\* call that has not returned, after normal returns and after unwinding.
C2_ScopeConfinement ==
    \A t \in Threads :
        /\ \A k \in HeldToks(t) : Live(k)
        /\ \A r \in HeldRefs(t) : Live(r.life)

\* C2 witness: an inner local_scope has returned a reference (one that an
\* enclosing scope's token gave) and its caller holds it.
C2_Witness ==
    /\ obs.op = "scope_return" /\ obs.res = "ref"
    /\ Top(obs.thread).refs # {}

\* C3 as claimed: a token and every reference obtained through it are held
\* only by the thread that created the token.
C3_Original ==
    \A t \in Threads :
        /\ \A k \in HeldToks(t) : k.thread = t
        /\ \A r \in HeldRefs(t) : r.life.thread = t

\* C3 as amended: a token is held only by the thread that created it; a
\* reference obtained through it is held by another thread only if the
\* slot's type is Sync, and only while the creating thread is inside the
\* thread::scope call that lent it, within the token's scope.
C3_TokenConfinement ==
    \A t \in Threads :
        /\ \A k \in HeldToks(t) : k.thread = t
        /\ \A r \in HeldRefs(t) :
              /\ r.owner = r.life.thread
              /\ r.life.thread # t =>
                    /\ IsSync(r.slot)
                    /\ Live(r.life)
                    /\ \E i \in DOMAIN stack[r.life.thread] :
                          /\ i > r.life.pos
                          /\ stack[r.life.thread][i].kind = "tscope"

\* C3 witness: the worker holds a reference that main obtained in its scope.
C3_Witness ==
    \E r \in HeldRefs("worker") : r.life.thread = "main" /\ r.owner = "main"

\* C4: try_access of a slot that is not in or past teardown, whose
\* initializer yields its value, returns Ok with the slot's current value
\* (the initializer's on the first access), leaves the slot alive, and runs
\* the initializer exactly when the slot was uninitialized.
C4_SuccessfulAccess ==
    (obs.op = "try_access" /\ obs.pre \in {"uninit", "alive"} /\ obs.res # "panic") =>
        /\ obs.res = "Ok"
        /\ obs.val = val[obs.thread][obs.slot]
        /\ slot[obs.thread][obs.slot] = "alive"
        /\ obs.init <=> obs.pre = "uninit"
        /\ obs.pre = "uninit" => obs.val = InitValue(obs.slot)
        /\ \/ \E r \in HeldRefs(obs.thread) : r.owner = obs.thread /\ r.slot = obs.slot
           \/ Cardinality(HeldRefs(obs.thread)) = MaxRefs

\* C4 witness: the first access of B on a thread gave Ok(1).
C4_Witness ==
    /\ obs.op = "try_access" /\ obs.slot = "B" /\ obs.pre = "uninit"
    /\ obs.res = "Ok" /\ obs.val = 1

\* The value a read of cell s gives on a thread that swapped A and B an
\* odd (sw) or even number of times.
Expected(s, sw) ==
    IF sw THEN InitValue(IF s = "A" THEN "B" ELSE "A") ELSE InitValue(s)

\* C5: references are to the slot's own storage: after a swap through the
\* references to A (0) and B (1), a read of A gives 1 and of B gives 0, every
\* later read sees the last write, and no other slot changes.
C5_SwapThroughReferences ==
    /\ (obs.op \in {"try_access", "access"} /\ obs.res = "Ok" /\ IsCell(obs.slot)) =>
          obs.val = Expected(obs.slot, swapped[obs.thread])
    /\ \A t \in Threads : \A s \in Slots :
          /\ (IsCell(s) /\ slot[t][s] = "alive") => val[t][s] = Expected(s, swapped[t])
          /\ ~IsCell(s) => val[t][s] = InitValue(s)

\* C5 witness: after one swap, A reads 1 through a fresh access.
C5_Witness ==
    /\ obs.op = "access" /\ obs.slot = "A" /\ obs.res = "Ok" /\ obs.val = 1
    /\ swapped[obs.thread]
    /\ val[obs.thread]["B"] = 0

\* C6: access returns the reference when try_access would give Ok, and
\* when try_access would give Err it panics with a message that embeds the
\* Debug rendering of the AccessError, and does not return.
C6_AccessDelegates ==
    obs.op = "access" =>
        /\ obs.pre = "alive" =>
              /\ obs.res = "Ok"
              /\ ~panicking[obs.thread]
              /\ obs.val = val[obs.thread][obs.slot]
        /\ obs.pre \in {"running_dtor", "destroyed"} =>
              /\ obs.res = "panic"
              /\ panicking[obs.thread]
              /\ Len(obs.msg) = 2 /\ obs.msg[2] = "AccessError"
        /\ obs.res = "Ok" <=> slot[obs.thread][obs.slot] = "alive"
        /\ obs.res \in {"Ok", "panic"}

\* C6 witness: access of a slot inside its own destructor has panicked.
C6_Witness ==
    /\ obs.op = "access" /\ obs.pre = "running_dtor" /\ obs.res = "panic"
    /\ panicking[obs.thread]

\* C7 as claimed: try_access never panics; in every slot state it returns
\* Ok or Err, a failed initialization being an Err.
C7_Original ==
    obs.op = "try_access" => (obs.res \in {"Ok", "Err"} /\ ~panicking[obs.thread])

\* C7 as amended: try_access makes one attempt and raises no panic of its
\* own: a live slot gives Ok, a slot in or past teardown gives
\* Err(AccessError), an uninitialized slot runs its initializer and gives
\* Ok, unless the initializer panics: that panic is not turned into an Err,
\* it propagates, and the slot stays uninitialized.
C7_TryAccessOutcomes ==
    obs.op = "try_access" =>
        /\ obs.pre = "alive" => obs.res = "Ok"
        /\ obs.pre \in {"running_dtor", "destroyed"} => obs.res = "Err"
        /\ obs.pre = "uninit" => obs.res \in {"Ok", "panic"}
        /\ obs.res = "Err" => obs.pre \in {"running_dtor", "destroyed"}
        /\ obs.res = "panic" =>
              /\ obs.pre = "uninit"
              /\ obs.msg = InitPanicMessage
              /\ slot[obs.thread][obs.slot] = "uninit"
              /\ panicking[obs.thread]
        /\ obs.res # "panic" => ~panicking[obs.thread]

\* C7 witness: try_access of a slot whose destructor has completed gave Err.
C7_Witness ==
    obs.op = "try_access" /\ obs.pre = "destroyed" /\ obs.res = "Err"

\* C8: a try_access that returns Err changes neither the slot's state nor
\* its value nor the count of teardown runs and runs no initializer, so the
\* teardown handler of MY_THING runs exactly once on a thread that accessed
\* it and exited, although the handler makes a failing try_access itself.
C8_FailedAccessLeavesSlot ==
    /\ [][(obs'.op = "try_access" /\ obs'.res = "Err") =>
            (slot' = slot /\ val' = val /\ dtorRuns' = dtorRuns /\ ~obs'.init)]_vars
    /\ [](\A t \in Threads :
            /\ dtorRuns[t] <= 1
            /\ (thr[t] = "done" /\ slot[t]["MY_THING"] # "uninit") =>
                  (dtorRuns[t] = 1 /\ slot[t]["MY_THING"] = "destroyed"))

\* C8 witness: the spawned thread is done, and its handler ran, once.
C8_Witness ==
    /\ thr["worker"] = "done"
    /\ dtorRuns["worker"] = 1
    /\ slot["worker"]["MY_THING"] = "destroyed"

\* C9: a step of one thread (an access with its initialization, a swap
\* through its references, its teardown) leaves every slot state and value
\* of the other thread as it was, and each thread's references are to its
\* own instances.
C9_PerThreadIndependence ==
    /\ [][\A t \in Threads :
            obs'.thread # t => (slot'[t] = slot[t] /\ val'[t] = val[t])]_vars
    /\ [](\A t \in Threads : \A r \in HeldRefs(t) : r.owner = r.life.thread)
    /\ []((obs.op \in {"try_access", "access"} /\ obs.res = "Ok") =>
             obs.val = val[obs.thread][obs.slot])

\* C9 witness: both threads have A alive, and main's swap shows in main's
\* A only.
C9_Witness ==
    /\ slot["main"]["A"] = "alive" /\ slot["worker"]["A"] = "alive"
    /\ val["main"]["A"] = 1 /\ val["worker"]["A"] = 0
    /\ \E r \in HeldRefs("worker") : r.slot = "A" /\ r.owner = "worker"

\* C10: every reference a live scope has obtained is to a slot that is
\* alive on its thread, and no teardown handler is entered while a scope of
\* the thread is open: a destructor's frame has no scope's frame below it.
C10_ScopeKeepsSlotsAlive ==
    /\ \A r \in AllRefs : Live(r.life) /\ slot[r.owner][r.slot] = "alive"
    /\ \A t \in Threads : \A i \in DOMAIN stack[t] :
          stack[t][i].kind = "dtor" => i = 1

\* C10 witness: inside the teardown handler of one slot, a scope holds a
\* reference to another slot whose own teardown is still to come.
C10_Witness ==
    /\ Len(stack["main"]) >= 2
    /\ stack["main"][1].kind = "dtor"
    /\ \E r \in HeldRefs("main") :
          /\ NeedsDrop(r.slot)
          /\ r.slot # stack["main"][1].slot
          /\ slot["main"][r.slot] = "alive"

====
